---- MODULE Spec2Model ----
(***************************************************************************)
(* logbase: the log-entry store (db::Log over a ScyllaDB table `log`), the *)
(* field projection, the two listings and the HTTP handlers that call      *)
(* them.  The table is keyed by (uid, id); id is an xid (12 bytes, the     *)
(* first four the big-endian creation time in seconds) and rows of one uid *)
(* are clustered by id, newest first.                                      *)
(***************************************************************************)
EXTENDS Integers, Sequences, FiniteSets, TLC

VARIABLES
    rows,     \* the table `log`: (uid, id) -> the stored columns (<<>> = null)
    now,      \* the wall clock, in seconds (unix_ms() / 1000)
    counter,  \* the xid generator's counter
    writes,   \* UPDATE statements executed so far (bounds the model)
    ticks,    \* clock steps taken so far (bounds the model)
    resp,     \* the last call: its name, arguments and outcome
    calls     \* the calls in flight between two statements: caller -> position

vars == <<rows, now, counter, writes, ticks, resp, calls>>

----------------------------------------------------------------------------
(* Bounds of the model *)

MaxIds == 3        \* xid::new() calls
MaxWrites == 3     \* UPDATE statements executed, create's included
MaxTicks == 2      \* clock steps
MaxPage == 2       \* largest page_size tried
MaxFields == 2     \* longest requested field list tried by the projection calls
MaxCallers == 2    \* requests the server works on at the same time
StartTime == 1700000000

----------------------------------------------------------------------------
(* Sequences and bytes *)

Contains(s, x) == \E i \in 1..Len(s) : s[i] = x

Range(s) == {s[i] : i \in 1..Len(s)}

Min(S) == CHOOSE x \in S : \A y \in S : x <= y

Take(s, n) == IF Len(s) <= n THEN s ELSE SubSeq(s, 1, n)

SeqsUpTo(S, n) == UNION {[1..k -> S] : k \in 0..n}

\* u32::to_be_bytes
to_be_bytes(n) ==
    <<(n \div 16777216) % 256, (n \div 65536) % 256, (n \div 256) % 256, n % 256>>

\* Ord for xid::Id, a [u8; 12]: lexicographic on the bytes
IdLess(a, b) ==
    \E i \in 1..12 : a[i] < b[i] /\ \A j \in 1..(i - 1) : a[j] = b[j]

ZeroId == [i \in 1..12 |-> 0]

MAX_ID == [i \in 1..12 |-> 255]

\* the creation time embedded in an xid
IdTime(id) == ((id[1] * 256 + id[2]) * 256 + id[3]) * 256 + id[4]

\* xid::new(): time (4 bytes), machine id (3), process id (2), counter (3)
xid_new(t, c) ==
    to_be_bytes(t) \o <<7, 7, 7, 9, 9>>
        \o <<(c \div 65536) % 256, (c \div 256) % 256, c % 256>>

----------------------------------------------------------------------------
(* api/action.rs: the action registry (the table ACTIONS of the source) *)

ACTIONS_TABLE == <<
    "sys.create.user", "sys.update.user", "sys.update.group", "sys.update.creation",
    "reserved", "reserved", "reserved", "reserved",
    "user.login", "user.authz", "user.update", "user.update.cn",
    "user.logout", "user.collect", "user.follow", "user.subscribe",
    "user.sponsor", "reserved", "reserved", "reserved",
    "reserved", "reserved", "reserved", "reserved",
    "group.create", "group.update", "group.update.cn", "group.transfer",
    "group.delete", "group.create.user", "group.update.user", "group.add.member",
    "group.update.member", "group.remove.member", "reserved", "reserved",
    "reserved", "reserved", "reserved", "reserved",
    "creation.create", "creation.create.converting", "creation.create.scraping", "creation.update",
    "creation.update.content", "creation.release", "creation.delete", "creation.assist",
    "creation.transfer", "reserved", "reserved", "reserved",
    "reserved", "reserved", "reserved", "reserved",
    "publication.create", "publication.update", "publication.update.content", "publication.publish",
    "publication.delete", "publication.assist", "reserved", "reserved",
    "reserved", "reserved", "reserved", "reserved",
    "reserved", "reserved", "reserved", "reserved"
>>

\* `x as i8`
AsI8(x) == ((x + 128) % 256) - 128

\* a lookup that answers a negative code with the first entry
FromActionClamped(a) ==
    IF a >= Len(ACTIONS_TABLE) THEN "reserved"
    ELSE IF a < 0 THEN ACTIONS_TABLE[1] ELSE ACTIONS_TABLE[a + 1]

from_action(a) ==
    IF a < 0 \/ a >= Len(ACTIONS_TABLE) THEN "reserved" ELSE ACTIONS_TABLE[a + 1]

\* a lookup that counts the entries from one
ToActionOneBased(a) ==
    IF a = "reserved" THEN <<>>
    ELSE LET P == {i \in 1..Len(ACTIONS_TABLE) : ACTIONS_TABLE[i] = a}
         IN IF P = {} THEN <<>> ELSE <<AsI8(Min(P))>>

\* Option<i8>: <<>> is None, <<c>> is Some(c)
to_action(a) ==
    IF a = "reserved" THEN <<>>
    ELSE LET P == {i \in 1..Len(ACTIONS_TABLE) : ACTIONS_TABLE[i] = a}
         IN IF P = {} THEN <<>> ELSE <<AsI8(Min(P) - 1)>>

----------------------------------------------------------------------------
(* Errors: HTTPError { code, message }, the message split in kind and detail *)

NoErr == [code |-> 0, kind |-> "", detail |-> ""]

HTTPError(code, kind, detail) == [code |-> code, kind |-> kind, detail |-> detail]

\* scylladb: single_row() on an empty result
NotFound == HTTPError(404, "not found", "")

\* scylladb: a statement the server rejects or does not answer
StorageError(detail) == HTTPError(500, "storage", detail)

----------------------------------------------------------------------------
(* db/model_log.rs: Log and its projection *)

\* Log::fields(), derived by CqlOrm from the struct (`_fields` is skipped)
fields == <<"uid", "id", "action", "status", "gid", "ip", "payload", "tokens", "error">>

\* Log::default()
DefaultLog ==
    [uid |-> ZeroId, id |-> ZeroId, action |-> 0, status |-> 0, gid |-> ZeroId,
     ip |-> "", payload |-> <<>>, tokens |-> 0, error |-> "", _fields |-> <<>>]

with_pk(uid, id) == [DefaultLog EXCEPT !.uid = uid, !.id = id]

PushMissing(s, f) == IF Contains(s, f) THEN s ELSE Append(s, f)

\* the first requested name Log::fields() does not contain, "" when none
FirstInvalid(sf) ==
    LET I == {i \in 1..Len(sf) : ~Contains(fields, sf[i])}
    IN IF I = {} THEN "" ELSE sf[Min(I)]

\* a projection that never adds the primary key
NoPkSelectFields(sf, pk) ==
    IF sf = <<>> THEN [err |-> NoErr, fields |-> fields]
    ELSE IF FirstInvalid(sf) # ""
    THEN [err |-> HTTPError(400, "Invalid field", FirstInvalid(sf)), fields |-> <<>>]
    ELSE [err |-> NoErr, fields |-> PushMissing(PushMissing(sf, "action"), "status")]

\* a projection that accepts every name
NoCheckSelectFields(sf, pk) ==
    LET m == IF sf = <<>> THEN fields
             ELSE PushMissing(PushMissing(sf, "action"), "status")
    IN [err |-> NoErr,
        fields |-> IF pk /\ sf # <<>>
                   THEN PushMissing(PushMissing(m, "uid"), "id") ELSE m]

select_fields(sf, pk) ==
    IF sf = <<>> THEN [err |-> NoErr, fields |-> fields]
    ELSE IF FirstInvalid(sf) # ""
    THEN [err |-> HTTPError(400, "Invalid field", FirstInvalid(sf)), fields |-> <<>>]
    ELSE LET m == PushMissing(PushMissing(sf, "action"), "status")
         IN [err |-> NoErr,
             fields |-> IF pk THEN PushMissing(PushMissing(m, "uid"), "id") ELSE m]

----------------------------------------------------------------------------
(* The row store: table `log`, PRIMARY KEY (uid, id), newest id first *)

Columns == {"action", "status", "gid", "ip", "payload", "tokens", "error"}

\* a row none of whose columns was ever written
NullRow == [c \in Columns |-> <<>>]

\* CqlValue: the values bound to the `?` of a statement
Blob(b) == [t |-> "blob", b |-> b, n |-> 0]

TinyInt(n) == [t |-> "tinyint", b |-> <<>>, n |-> n]

CqlInt(n) == [t |-> "int", b |-> <<>>, n |-> n]

\* the CQL type of what each `?` of a SELECT stands for
MarkerType(m) ==
    CASE m[1] \in {"uid", "id"} -> "blob"
      [] m[1] = "action" -> "tinyint"
      [] OTHER -> "int"

\* the values bound to the markers naming column c, in order
Bound(q, c) ==
    LET I == {i \in 1..Len(q.markers) : q.markers[i][1] = c /\ i <= Len(q.params)}
    IN [i \in I |-> q.params[i]]

\* whether row (k, r) satisfies the i-th marker of q, bound to the i-th value
Satisfies(q, i, k, r) ==
    LET m == q.markers[i]
        v == q.params[i]
    IN CASE m = <<"uid", "=">> -> k[1] = v.b
         [] m = <<"id", "<">> -> IdLess(k[2], v.b)
         [] m = <<"id", ">">> -> IdLess(v.b, k[2])
         [] m = <<"id", "<=">> -> ~IdLess(v.b, k[2])
         [] m = <<"action", "=">> -> r.action = <<v.n>>
         [] m = <<"action", "IN">> ->
              \E j \in 1..Len(q.markers) :
                  q.markers[j] = m /\ r.action = <<q.params[j].n>>
         [] OTHER -> TRUE

RECURSIVE NewestFirst(_)
\* the keys of K as a sequence, in the clustering order of the table
NewestFirst(K) ==
    IF K = {} THEN <<>>
    ELSE LET top == CHOOSE k \in K : \A o \in K : o = k \/ IdLess(o[2], k[2])
         IN <<top>> \o NewestFirst(K \ {top})

\* the order in which the table returns the rows of one partition
ClusteringOrder(K) == NewestFirst(K)

\* db.execute_iter of a SELECT: the server checks every bound value against
\* the type of its marker, then returns the matching keys, at most LIMIT
execute_iter(store, q) ==
    IF Len(q.params) # Len(q.markers)
       \/ \E i \in 1..Len(q.markers) : q.params[i].t # MarkerType(q.markers[i])
    THEN [err |-> StorageError("invalid value"), keys |-> <<>>]
    ELSE LET K == {k \in DOMAIN store :
                      \A i \in 1..Len(q.markers) : Satisfies(q, i, k, store[k])}
             lim == q.params[Len(q.params)].n
         IN [err |-> NoErr, keys |-> Take(ClusteringOrder(K), lim)]

\* cols.fill(row, &fields); doc.fill(&cols): a selected column that is not
\* null overwrites the field of the struct, every other field is kept
Fill(doc, k, r, fs) ==
    [f \in DOMAIN doc |->
        IF f = "_fields" \/ ~Contains(fs, f) THEN doc[f]
        ELSE IF f = "uid" THEN k[1]
        ELSE IF f = "id" THEN k[2]
        ELSE IF r[f] = <<>> THEN doc[f] ELSE r[f][1]]

\* a get_one that answers a missing row with the struct as it stands
GetOneDefaultOnMiss(store, self, sf) ==
    LET p == select_fields(sf, FALSE)
        k == <<self.uid, self.id>>
        d == [self EXCEPT !._fields = p.fields]
    IN IF p.err # NoErr THEN [err |-> p.err, doc |-> self, reads |-> 0]
       ELSE IF k \notin DOMAIN store THEN [err |-> NoErr, doc |-> d, reads |-> 1]
       ELSE [err |-> NoErr, doc |-> Fill(d, k, store[k], p.fields), reads |-> 1]

\* Log::get_one
get_one(store, self, sf) ==
    LET p == select_fields(sf, FALSE)
        k == <<self.uid, self.id>>
        d == [self EXCEPT !._fields = p.fields]
    IN IF p.err # NoErr THEN [err |-> p.err, doc |-> self, reads |-> 0]
       ELSE IF k \notin DOMAIN store THEN [err |-> NotFound, doc |-> d, reads |-> 1]
       ELSE [err |-> NoErr, doc |-> Fill(d, k, store[k], p.fields), reads |-> 1]

valid_fields == {"status", "gid", "action", "ip", "payload", "tokens", "error"}

\* a write that replaces the row instead of setting the named columns
ReplaceRow(store, k, cols) ==
    LET new == [c \in Columns |-> IF c \in DOMAIN cols THEN <<cols[c]>> ELSE <<>>]
    IN [x \in (DOMAIN store) \cup {k} |-> IF x = k THEN new ELSE store[x]]

\* UPDATE log SET c=?,... WHERE uid=? AND id=?: an upsert of the named columns
SetColumns(store, k, cols) ==
    LET old == IF k \in DOMAIN store THEN store[k] ELSE NullRow
        new == [c \in Columns |-> IF c \in DOMAIN cols THEN <<cols[c]>> ELSE old[c]]
    IN [x \in (DOMAIN store) \cup {k} |-> IF x = k THEN new ELSE store[x]]

\* an upsert whose guard stops only at status success
UpsertNoGuard(store, self, cols) ==
    LET g == get_one(store, self, <<"status">>)
        k == <<self.uid, self.id>>
        bad == (DOMAIN cols) \ valid_fields
        out(e, w, s) == [err |-> e, doc |-> g.doc, reads |-> g.reads,
                         writes |-> w, store |-> s]
    IN IF g.err = NoErr /\ g.doc.status > 0
       THEN out(HTTPError(400, "log is frozen", ""), 0, store)
       ELSE IF bad # {}
       THEN out(HTTPError(400, "Invalid field", CHOOSE c \in bad : TRUE), 0, store)
       ELSE IF DOMAIN cols = {}
       THEN out(StorageError("syntax"), 1, store)
       ELSE out(NoErr, 1, SetColumns(store, k, cols))

\* Log::upsert_fields; cols is the ColumnsMap, a function on the supplied names
upsert_fields(store, self, cols) ==
    LET g == get_one(store, self, <<"status">>)
        k == <<self.uid, self.id>>
        bad == (DOMAIN cols) \ valid_fields
        out(e, w, s) == [err |-> e, doc |-> g.doc, reads |-> g.reads,
                         writes |-> w, store |-> s]
    IN IF g.err = NoErr /\ g.doc.status # 0
       THEN out(HTTPError(400, "log is frozen", ""), 0, store)
       ELSE IF bad # {}
       THEN out(HTTPError(400, "Invalid field", CHOOSE c \in bad : TRUE), 0, store)
       ELSE IF DOMAIN cols = {}
       THEN out(StorageError("syntax"), 1, store)
       ELSE out(NoErr, 1, SetColumns(store, k, cols))

\* the rows of an iteration as Logs: doc.fill(&cols); doc._fields = fields
Docs(store, keys, fs) ==
    [i \in 1..Len(keys) |->
        [Fill(DefaultLog, keys[i], store[keys[i]], fs) EXCEPT !._fields = fs]]

NoQuery == [markers |-> <<>>, params |-> <<>>]

\* the outcome of a listing: the projection error, or that of the statement
Listed(store, p, q) ==
    LET x == execute_iter(store, q)
    IN IF p.err # NoErr
       THEN [err |-> p.err, docs |-> <<>>, reads |-> 0, writes |-> 0, query |-> NoQuery]
       ELSE IF x.err # NoErr
       THEN [err |-> x.err, docs |-> <<>>, reads |-> 1, writes |-> 0, query |-> q]
       ELSE [err |-> NoErr, docs |-> Docs(store, x.keys, p.fields), reads |-> 1,
             writes |-> 0, query |-> q]

\* a listing that returns the cursor's own row again
ListInclusive(store, uid, sf, page_size, page_token, action) ==
    LET token == IF page_token = <<>> THEN MAX_ID ELSE page_token[1]
    IN Listed(store, select_fields(sf, TRUE),
              [markers |-> <<<<"uid", "=">>, <<"id", "<=">>, <<"LIMIT", "">>>>,
               params |-> <<Blob(uid), Blob(token), CqlInt(page_size)>>])

\* Log::list; page_token and action are Options: <<>> or <<v>>
list(store, uid, sf, page_size, page_token, action) ==
    LET token == IF page_token = <<>> THEN MAX_ID ELSE page_token[1]
        q == IF action = <<>>
             THEN [markers |-> <<<<"uid", "=">>, <<"id", "<">>, <<"LIMIT", "">>>>,
                   params |-> <<Blob(uid), Blob(token), CqlInt(page_size)>>]
             ELSE [markers |-> <<<<"uid", "=">>, <<"action", "=">>, <<"id", "<">>,
                                 <<"LIMIT", "">>>>,
                   params |-> <<Blob(uid), Blob(token), TinyInt(action[1]),
                                CqlInt(page_size)>>]
    IN Listed(store, select_fields(sf, TRUE), q)

\* the row cap of Log::list_recently
RecentLimit == 1000

\* "from 3 days ago", in seconds
RecentWindow == 3600 * 24 * 3

\* the lower bound of Log::list_recently at clock t: (t - 3 days) as u32 in
\* the first four bytes of a default xid (t stays below 2^31 here)
RecentBound(t) == to_be_bytes(t - RecentWindow) \o [i \in 1..8 |-> 0]

\* a listing whose window is one day
RecentOneDay(store, t, uid, sf, actions) ==
    Listed(store, select_fields(sf, TRUE),
           [markers |-> <<<<"uid", "=">>, <<"id", ">">>>>
                          \o [i \in 1..Len(actions) |-> <<"action", "IN">>]
                          \o <<<<"LIMIT", "">>>>,
            params |-> <<Blob(uid), Blob(to_be_bytes(t - 3600 * 24) \o [i \in 1..8 |-> 0])>>
                          \o [i \in 1..Len(actions) |-> TinyInt(actions[i])]
                          \o <<CqlInt(RecentLimit)>>])

\* a listing that binds only the first action of the filter
RecentFirstAction(store, t, uid, sf, actions) ==
    Listed(store, select_fields(sf, TRUE),
           [markers |-> <<<<"uid", "=">>, <<"id", ">">>>>
                          \o [i \in 1..Min({1, Len(actions)}) |-> <<"action", "IN">>]
                          \o <<<<"LIMIT", "">>>>,
            params |-> <<Blob(uid), Blob(RecentBound(t))>>
                          \o [i \in 1..Min({1, Len(actions)}) |-> TinyInt(actions[i])]
                          \o <<CqlInt(RecentLimit)>>])

\* Log::list_recently at clock t; with no actions the IN clause is left out
list_recently(store, t, uid, sf, actions) ==
    Listed(store, select_fields(sf, TRUE),
           [markers |-> <<<<"uid", "=">>, <<"id", ">">>>>
                          \o [i \in 1..Len(actions) |-> <<"action", "IN">>]
                          \o <<<<"LIMIT", "">>>>,
            params |-> <<Blob(uid), Blob(RecentBound(t))>>
                          \o [i \in 1..Len(actions) |-> TinyInt(actions[i])]
                          \o <<CqlInt(RecentLimit)>>])

----------------------------------------------------------------------------
(* api/log.rs: the handlers *)

Failed(store, e) ==
    [err |-> e, doc |-> DefaultLog, reads |-> 0, writes |-> 0, store |-> store,
     cols |-> <<>>, xids |-> 0]

\* a create that also stores the status of its input
CreateStoresStatus(store, t, c, input) ==
    IF ~(input.status \in -1..1 /\ input.tokens >= 0)
    THEN Failed(store, HTTPError(400, "validation", ""))
    ELSE LET i == to_action(input.action)
         IN IF i = <<>>
            THEN Failed(store, HTTPError(400, "invalid action", input.action))
            ELSE LET doc == [with_pk(input.uid, xid_new(t, c)) EXCEPT !.action = i[1]]
                     cols == [action |-> i[1], gid |-> input.gid, ip |-> input.ip,
                              payload |-> input.payload, tokens |-> input.tokens,
                              status |-> input.status]
                     r == upsert_fields(store, doc, cols)
                 IN [err |-> r.err, doc |-> r.doc, reads |-> r.reads,
                     writes |-> r.writes, store |-> r.store, cols |-> cols,
                     xids |-> 1]

\* a create that stores an unresolved action name under the code -1
CreateAnyAction(store, t, c, input) ==
    IF ~(input.status \in -1..1 /\ input.tokens >= 0)
    THEN Failed(store, HTTPError(400, "validation", ""))
    ELSE LET i == IF to_action(input.action) = <<>> THEN <<-1>> ELSE to_action(input.action)
             doc == [with_pk(input.uid, xid_new(t, c)) EXCEPT !.action = i[1]]
             cols == [action |-> i[1], gid |-> input.gid, ip |-> input.ip,
                      payload |-> input.payload, tokens |-> input.tokens]
             r == upsert_fields(store, doc, cols)
         IN [err |-> r.err, doc |-> r.doc, reads |-> r.reads,
             writes |-> r.writes, store |-> r.store, cols |-> cols,
             xids |-> 1]

\* create: input is the CreateLogInput; t and c are the clock and the xid counter
create(store, t, c, input) ==
    IF ~(input.status \in -1..1 /\ input.tokens >= 0)
    THEN Failed(store, HTTPError(400, "validation", ""))
    ELSE LET i == to_action(input.action)
         IN IF i = <<>>
            THEN Failed(store, HTTPError(400, "invalid action", input.action))
            ELSE LET doc == [with_pk(input.uid, xid_new(t, c)) EXCEPT !.action = i[1]]
                     cols == [action |-> i[1], gid |-> input.gid, ip |-> input.ip,
                              payload |-> input.payload, tokens |-> input.tokens]
                     r == upsert_fields(store, doc, cols)
                 IN [err |-> r.err, doc |-> r.doc, reads |-> r.reads,
                     writes |-> r.writes, store |-> r.store, cols |-> cols,
                     xids |-> 1]

\* the columns update sets: status, and each Option of the input that is Some
UpdateCols(input) ==
    LET opt == {c \in {"payload", "tokens", "error"} : input[c] # <<>>}
    IN [c \in {"status"} \cup opt |-> IF c = "status" THEN input.status ELSE input[c][1]]

\* an update that takes every status
UpdateAnyStatus(store, input) ==
    IF input.tokens # <<>> /\ input.tokens[1] < 0
    THEN Failed(store, HTTPError(400, "validation", ""))
    ELSE LET r == upsert_fields(store, with_pk(input.uid, input.id), UpdateCols(input))
         IN [err |-> r.err, doc |-> r.doc, reads |-> r.reads, writes |-> r.writes,
             store |-> r.store, cols |-> UpdateCols(input), xids |-> 0]

\* update: input is the UpdateLogInput; an Option is <<>> (None) or <<v>>
update(store, input) ==
    IF input.tokens # <<>> /\ input.tokens[1] < 0
    THEN Failed(store, HTTPError(400, "validation", ""))
    ELSE IF input.status # -1 /\ input.status # 1
    THEN Failed(store, HTTPError(400, "invalid status", ToString(input.status)))
    ELSE LET r == upsert_fields(store, with_pk(input.uid, input.id), UpdateCols(input))
         IN [err |-> r.err, doc |-> r.doc, reads |-> r.reads, writes |-> r.writes,
             store |-> r.store, cols |-> UpdateCols(input), xids |-> 0]

----------------------------------------------------------------------------
(* The callers: inputs tried, and one action per call *)

UidA == [i \in 1..12 |-> 1]

UidB == [i \in 1..12 |-> 2]

Owners == {UidA, UidB}

GidG == [i \in 1..12 |-> 3]

\* an id no xid::new() of this process returns: a client made it up
ProbeId == to_be_bytes(StartTime) \o [i \in 1..8 |-> 0]

\* the ids a caller can name: those it was given, and the made-up one
TargetIds == {k[2] : k \in DOMAIN rows} \cup {ProbeId}

\* the keys the writing calls are tried on: every row, and one key without a row
WriteKeys == (DOMAIN rows) \cup {<<UidA, ProbeId>>}

CreateBody(a, s, n) ==
    [action |-> a, status |-> s, gid |-> GidG, ip |-> "1.2.3.4",
     payload |-> <<128>>, tokens |-> n]

CreateBodies ==
    {CreateBody("group.create", 1, 1000), CreateBody("reserved", 0, 1000),
     CreateBody("no.such.action", 0, 1000), CreateBody("group.create", 2, 1000),
     CreateBody("group.create", 0, -1)}

UpdateBody(s, p, n, e) == [status |-> s, payload |-> p, tokens |-> n, error |-> e]

UpdateBodies ==
    {UpdateBody(1, <<>>, <<>>, <<>>),
     UpdateBody(-1, <<<<1>>>>, <<5>>, <<"some error">>),
     UpdateBody(0, <<>>, <<>>, <<"some error">>),
     UpdateBody(1, <<>>, <<-1>>, <<>>)}

\* the ColumnsMaps handed to Log::upsert_fields directly
ColumnsMaps ==
    {[error |-> "some error"],
     [status |-> 0, tokens |-> 7, ip |-> "5.6.7.8"],
     [uid |-> UidB, error |-> "some error"],
     <<>>}

FieldLists == {<<>>, <<"error">>, <<"tokens", "payload">>, <<"error", "nope">>}

Resp(op, uid, id, arg, cols, r, docs) ==
    [op |-> op, uid |-> uid, id |-> id, arg |-> arg, cols |-> cols,
     err |-> r.err, docs |-> docs, reads |-> r.reads, writes |-> r.writes]

Init ==
    /\ rows = <<>>
    /\ calls = <<>>
    /\ now = StartTime
    /\ counter = 1
    /\ writes = 0
    /\ ticks = 0
    /\ resp = Resp("init", ZeroId, ZeroId, <<>>, <<>>,
                   [err |-> NoErr, reads |-> 0, writes |-> 0], <<>>)

Written(r) == IF r.err = NoErr THEN r.writes ELSE 0

\* POST /v1/log
CreateWith(owners, bodies, limit) ==
    /\ counter <= MaxIds
    /\ \E uid \in owners, body \in bodies :
         LET input == [f \in (DOMAIN body) \cup {"uid"} |->
                          IF f = "uid" THEN uid ELSE body[f]]
             r == create(rows, now, counter, input)
         IN /\ writes + Written(r) <= limit
            /\ rows' = r.store
            /\ counter' = counter + r.xids
            /\ writes' = writes + Written(r)
            /\ resp' = Resp("create", uid,
                            IF r.xids = 1 THEN xid_new(now, counter) ELSE ZeroId,
                            body, r.cols, r,
                            IF r.err = NoErr THEN <<r.doc>> ELSE <<>>)
    /\ UNCHANGED <<calls, now, ticks>>

\* PATCH /v1/log
UpdateWith(keys, bodies, limit) ==
    /\ \E k \in keys, body \in bodies :
         LET input == [f \in (DOMAIN body) \cup {"uid", "id"} |->
                          IF f = "uid" THEN k[1] ELSE IF f = "id" THEN k[2] ELSE body[f]]
             r == update(rows, input)
         IN /\ writes + Written(r) <= limit
            /\ rows' = r.store
            /\ writes' = writes + Written(r)
            /\ resp' = Resp("update", k[1], k[2], body, r.cols, r,
                            IF r.err = NoErr THEN <<r.doc>> ELSE <<>>)
    /\ UNCHANGED <<calls, now, counter, ticks>>

\* Log::with_pk(uid, id).upsert_fields(db, cols)
CallUpsertFields ==
    /\ \E k \in WriteKeys, cols \in ColumnsMaps :
         LET r == upsert_fields(rows, with_pk(k[1], k[2]), cols)
         IN /\ writes + Written(r) <= MaxWrites
            /\ rows' = r.store
            /\ writes' = writes + Written(r)
            /\ resp' = Resp("upsert_fields", k[1], k[2], <<>>, cols, r, <<r.doc>>)
    /\ UNCHANGED <<calls, now, counter, ticks>>

\* Log::with_pk(uid, id).get_one(db, select_fields); GET /v1/log
CallGetOne ==
    /\ \E uid \in Owners, id \in TargetIds, sf \in FieldLists :
         LET r == get_one(rows, with_pk(uid, id), sf)
         IN resp' = Resp("get_one", uid, id, sf, <<>>,
                         [err |-> r.err, reads |-> r.reads, writes |-> 0],
                         IF r.err = NoErr THEN <<r.doc>> ELSE <<>>)
    /\ UNCHANGED <<calls, rows, now, counter, writes, ticks>>

Next ==
    \/ CreateWith(Owners, CreateBodies, MaxWrites)
    \/ UpdateWith(WriteKeys, UpdateBodies, MaxWrites)
    \/ CallUpsertFields
    \/ CallGetOne

Spec == Init /\ [][Next]_vars

----------------------------------------------------------------------------
(* Properties of the entry store, under Spec *)

Key(r) == <<r.uid, r.id>>

\* the stored status of k is success (1) or failure (-1)
Terminal(store, k) == k \in DOMAIN store /\ store[k].status \in {<<1>>, <<-1>>}

\* k has a row whose status is pending: never written, or 0
Pending(store, k) == k \in DOMAIN store /\ store[k].status \in {<<>>, <<0>>}

\* the body passes the checks update makes before it calls upsert_fields
UpdateAccepted(body) ==
    /\ body.status \in {-1, 1}
    /\ body.tokens = <<>> \/ body.tokens[1] >= 0

\* the step is a call of Log::upsert_fields, direct or through update
UpsertCalled(r) ==
    \/ r.op = "upsert_fields"
    \/ r.op = "update" /\ UpdateAccepted(r.arg)

\* what a get_one with no field filter shows of key k
Observed(store, k) == get_one(store, with_pk(k[1], k[2]), <<>>)

\* C1: once the stored status of an entry is 1 or -1, every further call of
\* upsert_fields on its key, whatever the columns, fails with "log is frozen"
\* and leaves the row as it was, as a get_one with no field filter shows it.
C1_FrozenIsRejected ==
    [][(UpsertCalled(resp') /\ Terminal(rows, Key(resp')))
        => /\ resp'.err = HTTPError(400, "log is frozen", "")
           /\ rows' = rows
           /\ Observed(rows', Key(resp')) = Observed(rows, Key(resp'))]_vars

\* a frozen row refused an update that named a column outside the allowlist
C1_Witness ==
    /\ resp.op = "upsert_fields"
    /\ Terminal(rows, Key(resp))
    /\ "uid" \in DOMAIN resp.cols
    /\ resp.err.kind = "log is frozen"

\* C2: after a successful create, a get_one with no field filter on the
\* returned key succeeds with status 0, the code of the action name, the same
\* uid and id, the supplied gid, ip, payload and tokens, and an empty error.
C2_CreateThenGetOne ==
    (resp.op = "create" /\ resp.err = NoErr)
        => LET g == Observed(rows, Key(resp))
           IN /\ Len(resp.docs) = 1
              /\ resp.docs[1].uid = resp.uid /\ resp.docs[1].id = resp.id
              /\ g.err = NoErr
              /\ g.doc.status = 0
              /\ <<g.doc.action>> = to_action(resp.arg.action)
              /\ from_action(g.doc.action) = resp.arg.action
              /\ g.doc.uid = resp.uid /\ g.doc.id = resp.id
              /\ g.doc.gid = resp.arg.gid
              /\ g.doc.ip = resp.arg.ip
              /\ g.doc.payload = resp.arg.payload
              /\ g.doc.tokens = resp.arg.tokens
              /\ g.doc.error = ""

\* a create succeeded whose input carried status 1, next to an older row
C2_Witness ==
    /\ resp.op = "create" /\ resp.err = NoErr
    /\ resp.arg.status = 1
    /\ Cardinality(DOMAIN rows) >= 2

\* C7: a successful upsert_fields on a pending entry sets exactly the supplied
\* columns of that row; its other columns and every other row keep their values.
C7_UpdateSetsOnlySupplied ==
    [][(UpsertCalled(resp') /\ resp'.err = NoErr /\ Pending(rows, Key(resp')))
        => LET k == Key(resp')
           IN /\ DOMAIN rows' = DOMAIN rows
              /\ \A c \in Columns :
                    rows'[k][c] = IF c \in DOMAIN resp'.cols
                                  THEN <<resp'.cols[c]>> ELSE rows[k][c]
              /\ \A o \in DOMAIN rows : o # k => rows'[o] = rows[o]
              /\ \A f \in Range(fields) :
                    f \notin DOMAIN resp'.cols
                        => Observed(rows', k).doc[f] = Observed(rows, k).doc[f]]_vars

\* only error was updated; tokens and payload of the creation are still read
C7_Witness ==
    /\ resp.op = "upsert_fields" /\ resp.err = NoErr
    /\ resp.cols = [error |-> "some error"]
    /\ Cardinality(DOMAIN rows) >= 2
    /\ LET g == Observed(rows, Key(resp))
       IN g.doc.tokens = 1000 /\ g.doc.payload = <<128>> /\ g.doc.error = "some error"

\* C8: get_one on a key without a row fails with not found (404) for every
\* list of valid field names, and leaves the table as it was.
C8_GetOneMissing ==
    [][(/\ resp'.op = "get_one"
        /\ Key(resp') \notin DOMAIN rows
        /\ FirstInvalid(resp'.arg) = "")
        => /\ resp'.err = NotFound
           /\ resp'.err.code = 404
           /\ resp'.docs = <<>>
           /\ rows' = rows]_vars

\* a get_one of selected fields found no row while the table held other rows
C8_Witness ==
    /\ resp.op = "get_one"
    /\ resp.arg = <<"tokens", "payload">>
    /\ Key(resp) \notin DOMAIN rows
    /\ rows # <<>>
    /\ resp.err.code = 404

----------------------------------------------------------------------------
(* The listings: Log::list paged by a client, under SpecPage *)

ListResp(op, uid, arg, r) ==
    [op |-> op, uid |-> uid, id |-> ZeroId, arg |-> arg, cols |-> <<>>,
     err |-> r.err, docs |-> r.docs, reads |-> r.reads, writes |-> 0,
     query |-> r.query]

\* the clock moves on by one of the given numbers of seconds
TickWith(deltas) ==
    /\ ticks < MaxTicks
    /\ \E d \in deltas : now' = now + d
    /\ ticks' = ticks + 1
    /\ UNCHANGED <<calls, rows, counter, writes, resp>>

PageCreateBodies == {CreateBody("group.create", 0, 1000)}

ListArgs ==
    {[sf |-> <<"ip">>, page_size |-> n, action |-> <<>>] : n \in 1..MaxPage}
        \cup {[sf |-> <<>>, page_size |-> MaxPage, action |-> <<>>],
              [sf |-> <<>>, page_size |-> MaxPage, action |-> <<24>>],
              [sf |-> <<"ip", "nope">>, page_size |-> 1, action |-> <<>>]}

\* the cursors a client passes: none, a made-up one, and the id of the last
\* entry of the page it has just been given
Cursors ==
    {<<>>, <<ProbeId>>}
        \cup (IF resp.op = "list" /\ resp.docs # <<>>
              THEN {<<resp.docs[Len(resp.docs)].id>>} ELSE {})

\* Log::list(db, uid, select_fields, page_size, page_token, action)
CallList ==
    /\ \E uid \in Owners, a \in ListArgs, c \in Cursors :
         resp' = ListResp("list", uid,
                          [sf |-> a.sf, page_size |-> a.page_size, page_token |-> c,
                           action |-> a.action],
                          list(rows, uid, a.sf, a.page_size, c, a.action))
    /\ UNCHANGED <<calls, rows, now, counter, writes, ticks>>

NextPage ==
    \/ CreateWith(Owners, PageCreateBodies, MaxIds)
    \/ TickWith({1})
    \/ CallList

SpecPage == Init /\ [][NextPage]_vars

OwnerIds(store, uid) == {k[2] : k \in {x \in DOMAIN store : x[1] = uid}}

\* the ids of the docs run strictly downwards
Descending(docs) ==
    \A i, j \in 1..Len(docs) : i < j => IdLess(docs[j].id, docs[i].id)

\* the n greatest ids of S
Newest(S, n) == {x \in S : Cardinality({y \in S : IdLess(x, y)}) < n}

RECURSIVE Pages(_, _, _, _, _, _)
\* the pages a client collects from cursor on, each cursor the id of the last
\* entry of the page before, until a page is empty (at most fuel pages)
Pages(store, uid, sf, n, cursor, fuel) ==
    LET r == list(store, uid, sf, n, cursor, <<>>)
    IN IF r.docs = <<>> \/ fuel = 0 THEN <<>>
       ELSE r.docs \o Pages(store, uid, sf, n, <<r.docs[Len(r.docs)].id>>, fuel - 1)

\* C3: list without action filter returns at most page_size entries of the
\* owner, in strictly descending id order, all below the cursor (below MAX_ID
\* without one), and they are the newest such entries; paging with the last
\* id as the next cursor visits every entry of the owner exactly once, for
\* every page size from 1 on.
C3_BackwardPaging ==
    /\ (resp.op = "list" /\ resp.arg.action = <<>> /\ FirstInvalid(resp.arg.sf) = "")
        => LET cursor == IF resp.arg.page_token = <<>> THEN [i \in 1..12 |-> 255]
                         ELSE resp.arg.page_token[1]
               below == {x \in OwnerIds(rows, resp.uid) : IdLess(x, cursor)}
           IN /\ resp.err = NoErr
              /\ Len(resp.docs) <= resp.arg.page_size
              /\ Descending(resp.docs)
              /\ \A i \in 1..Len(resp.docs) : resp.docs[i].uid = resp.uid
              /\ {resp.docs[i].id : i \in 1..Len(resp.docs)}
                    = Newest(below, resp.arg.page_size)
    /\ \A uid \in Owners, n \in 1..MaxPage, sf \in {<<>>, <<"ip">>} :
          LET all == Pages(rows, uid, sf, n, <<>>, Cardinality(DOMAIN rows) + 1)
          IN /\ Descending(all)
             /\ {all[i].id : i \in 1..Len(all)} = OwnerIds(rows, uid)

\* a client got the full page that follows an entry of an owner of several
\* entries, while the other owner has entries too
C3_Witness ==
    /\ resp.op = "list" /\ resp.err = NoErr
    /\ resp.arg.action = <<>>
    /\ resp.arg.sf = <<"ip">>
    /\ resp.arg.page_token # <<>>
    /\ resp.arg.page_token[1] \in OwnerIds(rows, resp.uid)
    /\ Len(resp.docs) = resp.arg.page_size
    /\ Cardinality(OwnerIds(rows, resp.uid)) >= 2
    /\ \E o \in Owners : o # resp.uid /\ OwnerIds(rows, o) # {}

\* C4: list with an action filter a and cursor t binds a to the action
\* predicate and t to the id predicate of its query, and returns the newest
\* rows of the owner whose action is a and whose id is below t.
C4_ActionFilter ==
    (resp.op = "list" /\ resp.arg.action # <<>> /\ FirstInvalid(resp.arg.sf) = "")
        => LET cursor == IF resp.arg.page_token = <<>> THEN [i \in 1..12 |-> 255]
                         ELSE resp.arg.page_token[1]
               a == resp.arg.action[1]
               match == {k \in DOMAIN rows : /\ k[1] = resp.uid
                                             /\ rows[k].action = <<a>>
                                             /\ IdLess(k[2], cursor)}
           IN /\ \A i \in DOMAIN Bound(resp.query, "action") :
                    Bound(resp.query, "action")[i] = TinyInt(a)
              /\ \A i \in DOMAIN Bound(resp.query, "id") :
                    Bound(resp.query, "id")[i] = Blob(cursor)
              /\ resp.err = NoErr
              /\ {resp.docs[i].id : i \in 1..Len(resp.docs)}
                    = Newest({k[2] : k \in match}, resp.arg.page_size)

----------------------------------------------------------------------------
(* The listings: Log::list_recently as the clock moves, under SpecRecent *)

RecentCreateBodies ==
    {CreateBody("group.create", 0, 1000), CreateBody("group.delete", 0, 0)}

\* the filters tried: none, one and two actions, and the code 0
RecentArgs ==
    {[sf |-> <<>>, actions |-> <<>>],
     [sf |-> <<"ip">>, actions |-> <<>>],
     [sf |-> <<>>, actions |-> <<24, 28>>],
     [sf |-> <<"ip">>, actions |-> <<28>>],
     [sf |-> <<>>, actions |-> <<0>>],
     [sf |-> <<"nope">>, actions |-> <<24>>]}

\* Log::list_recently(db, uid, select_fields, actions)
CallListRecently ==
    /\ \E uid \in Owners, a \in RecentArgs :
         resp' = ListResp("list_recently", uid,
                          [sf |-> a.sf, actions |-> a.actions, now |-> now],
                          list_recently(rows, now, uid, a.sf, a.actions))
    /\ UNCHANGED <<calls, rows, now, counter, writes, ticks>>

NextRecent ==
    \/ CreateWith({UidA}, RecentCreateBodies, MaxIds)
    \/ CreateWith({UidB}, PageCreateBodies, MaxIds)
    \/ UpdateWith({<<UidA, ProbeId>>}, {UpdateBody(1, <<>>, <<>>, <<>>)}, MaxIds)
    \/ TickWith({RecentWindow})
    \/ CallListRecently

SpecRecent == Init /\ [][NextRecent]_vars

\* id is above the identifier whose time is t minus three days and whose
\* other bytes are zero
InWindow(id, t) ==
    \/ IdTime(id) > t - 259200
    \/ IdTime(id) = t - 259200 /\ \E i \in 5..12 : id[i] # 0

\* C5: list_recently with no action filter returns exactly the entries of the
\* owner whose id is above the bound (time now minus 3 days, other bytes
\* zero), newest first, at most 1000 of them; none older than the window.
C5_RecentNoFilter ==
    (/\ resp.op = "list_recently"
     /\ resp.arg.actions = <<>>
     /\ FirstInvalid(resp.arg.sf) = "")
        => LET in == {x \in OwnerIds(rows, resp.uid) : InWindow(x, resp.arg.now)}
           IN /\ resp.err = NoErr
              /\ Descending(resp.docs)
              /\ Len(resp.docs) <= 1000
              /\ \A i \in 1..Len(resp.docs) :
                    /\ resp.docs[i].uid = resp.uid
                    /\ IdTime(resp.docs[i].id) >= resp.arg.now - 259200
              /\ {resp.docs[i].id : i \in 1..Len(resp.docs)} = Newest(in, 1000)

\* a listing returned the entries of the window and left out an older one
C5_Witness ==
    /\ resp.op = "list_recently" /\ resp.err = NoErr
    /\ resp.arg.actions = <<>>
    /\ Len(resp.docs) >= 1
    /\ \E x \in OwnerIds(rows, resp.uid) : IdTime(x) < resp.arg.now - 259200
    /\ \E i \in 1..Len(resp.docs) : IdTime(resp.docs[i].id) = resp.arg.now - 259200

\* C6: list_recently with a filter S returns exactly the entries of the owner
\* in the window whose action is in S, the later created first (at most 1000).
C6_RecentFiltered ==
    (/\ resp.op = "list_recently"
     /\ resp.arg.actions # <<>>
     /\ FirstInvalid(resp.arg.sf) = "")
        => LET S == Range(resp.arg.actions)
               in == {k[2] : k \in {x \in DOMAIN rows :
                                       /\ x[1] = resp.uid
                                       /\ InWindow(x[2], resp.arg.now)
                                       /\ \E a \in S : rows[x].action = <<a>>}}
           IN /\ resp.err = NoErr
              /\ Descending(resp.docs)
              /\ \A i \in 1..Len(resp.docs) :
                    /\ resp.docs[i].uid = resp.uid
                    /\ resp.docs[i].action \in S
              /\ {resp.docs[i].id : i \in 1..Len(resp.docs)} = Newest(in, 1000)

\* group.create then group.delete were created for one owner; the listing
\* filtered on both returns the two, group.delete first
C6_Witness ==
    /\ resp.op = "list_recently" /\ resp.err = NoErr
    /\ resp.arg.actions = <<24, 28>>
    /\ Len(resp.docs) = 2
    /\ from_action(resp.docs[1].action) = "group.delete"
    /\ from_action(resp.docs[2].action) = "group.create"
    /\ IdLess(resp.docs[2].id, resp.docs[1].id)

----------------------------------------------------------------------------
(* The projection: Log::select_fields on every short list of names, and the
   three reads given the same list, under SpecProj *)

\* the names tried: the fields of Log, the skipped _fields, and a stranger
FieldNames == Range(fields) \cup {"_fields", "nope"}

\* the table when the request arrives: empty, or holding one created entry
ProjStores ==
    {<<>>,
     create(<<>>, StartTime, 1,
            [uid |-> UidA, action |-> "group.create", status |-> 0, gid |-> GidG,
             ip |-> "1.2.3.4", payload |-> <<128>>, tokens |-> 1000]).store}

ProjResp(op, arg, err, fs, docs, reads) ==
    [op |-> op, uid |-> UidA, id |-> ZeroId, arg |-> arg, cols |-> <<>>,
     err |-> err, fields |-> fs, docs |-> docs, reads |-> reads, writes |-> 0]

InitProj ==
    /\ rows \in ProjStores
    /\ calls = <<>>
    /\ now = StartTime
    /\ counter = 1 + Cardinality(DOMAIN rows)
    /\ writes = Cardinality(DOMAIN rows)
    /\ ticks = 0
    /\ \E sf \in SeqsUpTo(FieldNames, MaxFields), pk \in BOOLEAN :
          resp = ProjResp("request", [sf |-> sf, with_pk |-> pk], NoErr, <<>>, <<>>, 0)

\* Log::select_fields(select_fields, with_pk)
ApplySelectFields ==
    /\ resp.op = "request"
    /\ LET p == select_fields(resp.arg.sf, resp.arg.with_pk)
       IN resp' = ProjResp("select_fields", resp.arg, p.err, p.fields, <<>>, 0)
    /\ UNCHANGED <<calls, rows, now, counter, writes, ticks>>

ApplyGetOne ==
    /\ resp.op = "request"
    /\ \E id \in TargetIds :
         LET r == get_one(rows, with_pk(UidA, id), resp.arg.sf)
         IN resp' = [ProjResp("get_one", resp.arg, r.err, r.doc._fields,
                              IF r.err = NoErr THEN <<r.doc>> ELSE <<>>, r.reads)
                        EXCEPT !.id = id]
    /\ UNCHANGED <<calls, rows, now, counter, writes, ticks>>

ApplyList ==
    /\ resp.op = "request"
    /\ LET r == list(rows, UidA, resp.arg.sf, 1, <<>>, <<>>)
       IN resp' = ProjResp("list", resp.arg, r.err, <<>>, r.docs, r.reads)
    /\ UNCHANGED <<calls, rows, now, counter, writes, ticks>>

ApplyListRecently ==
    /\ resp.op = "request"
    /\ LET r == list_recently(rows, now, UidA, resp.arg.sf, <<>>)
       IN resp' = ProjResp("list_recently", resp.arg, r.err, <<>>, r.docs, r.reads)
    /\ UNCHANGED <<calls, rows, now, counter, writes, ticks>>

NextProj ==
    \/ ApplySelectFields
    \/ ApplyGetOne
    \/ ApplyList
    \/ ApplyListRecently

SpecProj == InitProj /\ [][NextProj]_vars

\* the full field set, written out
FullFieldSet == {"uid", "id", "action", "status", "gid", "ip", "payload", "tokens", "error"}

\* C9: for every list F of names of the full field set, the empty one
\* included, select_fields(F, true) succeeds and contains action, status, uid
\* and id; select_fields(F, false) contains action and status; an empty F
\* resolves to the full field set.
C9_MandatoryFields ==
    (resp.op = "select_fields" /\ Range(resp.arg.sf) \subseteq FullFieldSet)
        => /\ resp.err = NoErr
           /\ {"action", "status"} \subseteq Range(resp.fields)
           /\ resp.arg.with_pk => {"uid", "id"} \subseteq Range(resp.fields)
           /\ Range(resp.arg.sf) \subseteq Range(resp.fields)
           /\ resp.arg.sf = <<>>
                 => resp.fields = <<"uid", "id", "action", "status", "gid", "ip",
                                    "payload", "tokens", "error">>

\* a list naming none of the four resolved, with_pk, to itself and the four
C9_Witness ==
    /\ resp.op = "select_fields"
    /\ resp.arg = [sf |-> <<"tokens", "error">>, with_pk |-> TRUE]
    /\ resp.fields = <<"tokens", "error", "action", "status", "uid", "id">>

\* C10: select_fields fails with "Invalid field", naming the first offending
\* name, whenever the non-empty list holds a name outside the full field
\* set; get_one, list and list_recently given such a list fail with that
\* error before any statement reaches the row store.
C10_InvalidField ==
    (/\ resp.op \in {"select_fields", "get_one", "list", "list_recently"}
     /\ \E i \in 1..Len(resp.arg.sf) : resp.arg.sf[i] \notin FullFieldSet)
        => /\ \E i \in 1..Len(resp.arg.sf) :
                 /\ resp.arg.sf[i] \notin FullFieldSet
                 /\ \A j \in 1..(i - 1) : resp.arg.sf[j] \in FullFieldSet
                 /\ resp.err = HTTPError(400, "Invalid field", resp.arg.sf[i])
           /\ resp.reads = 0
           /\ resp.docs = <<>>

\* a get_one on the key of a stored entry was refused for its second name
C10_Witness ==
    /\ resp.op = "get_one"
    /\ resp.arg.sf = <<"ip", "_fields">>
    /\ <<resp.uid, resp.id>> \in DOMAIN rows
    /\ resp.err.detail = "_fields"
    /\ resp.reads = 0

----------------------------------------------------------------------------
(* api/mod.rs, api/log.rs: the entry as the callers see it (LogOutput), and
   the four handlers that return it, under SpecApi *)

\* a String of the query is the sequence of its characters here
RECURSIVE trim_start(_)
trim_start(cs) == IF cs # <<>> /\ cs[1] = " " THEN trim_start(Tail(cs)) ELSE cs

RECURSIVE trim_end(_)
trim_end(cs) ==
    IF cs # <<>> /\ cs[Len(cs)] = " " THEN trim_end(SubSeq(cs, 1, Len(cs) - 1)) ELSE cs

\* str::trim
trim(cs) == trim_end(trim_start(cs))

RECURSIVE split(_, _)
\* str::split(sep): the pieces between the separators, empty ones included
split(cs, sep) ==
    LET I == {i \in 1..Len(cs) : cs[i] = sep}
    IN IF I = {} THEN <<cs>>
       ELSE <<SubSeq(cs, 1, Min(I) - 1)>> \o split(SubSeq(cs, Min(I) + 1, Len(cs)), sep)

RECURSIVE to_string(_)
\* the characters as one name
to_string(cs) == IF cs = <<>> THEN "" ELSE cs[1] \o to_string(Tail(cs))

\* get_fields: the `fields` query value, an Option<String>, as a list of names
get_fields(f) ==
    IF f = <<>> THEN <<>>
    ELSE LET t == trim(f[1])
         IN IF t = <<>> THEN <<>>
            ELSE LET parts == split(t, ",")
                 IN [i \in 1..Len(parts) |-> to_string(trim(parts[i]))]

\* `n as u32` of an i32, as its four big-endian bytes (two's complement)
AsU32(n) == to_be_bytes(n)

\* an output that renders every optional field, selected or not
LogOutputAll(val) ==
    [uid |-> val.uid, id |-> val.id, action |-> from_action(val.action),
     status |-> val.status, gid |-> <<val.gid>>, ip |-> <<val.ip>>,
     payload |-> <<val.payload>>, tokens |-> <<AsU32(val.tokens)>>,
     error |-> <<val.error>>]

\* LogOutput::from; an Option is <<>> (None, left out of the response) or <<v>>
LogOutput_from(val) ==
    LET some(f, v) == IF Contains(val._fields, f) THEN <<v>> ELSE <<>>
    IN [uid |-> val.uid, id |-> val.id, action |-> from_action(val.action),
        status |-> val.status,
        gid |-> some("gid", val.gid),
        ip |-> some("ip", val.ip),
        payload |-> some("payload", val.payload),
        tokens |-> some("tokens", AsU32(val.tokens)),
        error |-> IF val.error = "" THEN <<>> ELSE some("error", val.error)]

\* get: input is the QueryLog (uid, id, fields)
get(store, input) ==
    LET r == get_one(store, with_pk(input.uid, input.id), get_fields(input.fields))
    IN [err |-> r.err, docs |-> IF r.err = NoErr THEN <<r.doc>> ELSE <<>>,
        out |-> IF r.err = NoErr THEN <<LogOutput_from(r.doc)>> ELSE <<>>,
        reads |-> r.reads, writes |-> 0]

\* the first name of the list that to_action does not resolve, "" when none
FirstUnresolved(names) ==
    LET I == {i \in 1..Len(names) : to_action(names[i]) = <<>>}
    IN IF I = {} THEN "" ELSE names[Min(I)]

\* a handler that takes any number of action names
ListRecentlyNoCap(store, t, input) ==
    LET none(e) == [err |-> e, docs |-> <<>>, out |-> <<>>, reads |-> 0, writes |-> 0]
    IN IF \E i \in 1..Len(input.actions) : to_action(input.actions[i]) = <<>>
       THEN none(HTTPError(400, "invalid action", FirstUnresolved(input.actions)))
       ELSE LET actions == [i \in 1..Len(input.actions) |-> to_action(input.actions[i])[1]]
                r == list_recently(store, t, input.uid,
                                   IF input.fields = <<>> THEN <<>> ELSE input.fields[1],
                                   actions)
            IN [err |-> r.err, docs |-> r.docs,
                out |-> [i \in 1..Len(r.docs) |-> LogOutput_from(r.docs[i])],
                reads |-> r.reads, writes |-> 0]

\* list_recently of api/log.rs, at clock t: input is the ListRecentlyInput
api_list_recently(store, t, input) ==
    LET none(e) == [err |-> e, docs |-> <<>>, out |-> <<>>, reads |-> 0, writes |-> 0]
    IN IF Len(input.actions) < 1 \/ Len(input.actions) > 10
       THEN none(HTTPError(400, "validation", "actions"))
       ELSE IF \E i \in 1..Len(input.actions) : to_action(input.actions[i]) = <<>>
       THEN none(HTTPError(400, "invalid action", FirstUnresolved(input.actions)))
       ELSE LET actions == [i \in 1..Len(input.actions) |-> to_action(input.actions[i])[1]]
                r == list_recently(store, t, input.uid,
                                   IF input.fields = <<>> THEN <<>> ELSE input.fields[1],
                                   actions)
            IN [err |-> r.err, docs |-> r.docs,
                out |-> [i \in 1..Len(r.docs) |-> LogOutput_from(r.docs[i])],
                reads |-> r.reads, writes |-> 0]

ApiCreateBodies ==
    {CreateBody("group.create", 0, 1000), CreateBody("group.delete", 1, 0),
     CreateBody("reserved", 0, 1000), CreateBody("no.such.action", 0, 1000),
     CreateBody("no.such.action", 2, 1000)}

\* the `fields` values of GET /v1/log: none, "ip", " tokens, error " and "ip,nope"
QueryFields ==
    {<<>>,
     <<<<"i", "p">>>>,
     <<<<" ", "t", "o", "k", "e", "n", "s", ",", " ", "e", "r", "r", "o", "r", " ">>>>,
     <<<<"i", "p", ",", "n", "o", "p", "e">>>>}

\* the bodies of POST /v1/log/list_recently: one and two actions, eleven, the
\* sentinel, an unknown name after a known one, and no action at all
RecentInputs ==
    {[actions |-> <<"group.create">>, fields |-> <<>>],
     [actions |-> <<"group.create", "group.delete">>, fields |-> <<<<"error", "tokens">>>>],
     [actions |-> [i \in 1..11 |-> "group.create"], fields |-> <<>>],
     [actions |-> <<"reserved">>, fields |-> <<>>],
     [actions |-> <<"group.create", "no.such.action">>, fields |-> <<>>],
     [actions |-> <<>>, fields |-> <<>>]}

\* the bodies of PATCH /v1/log: those of UpdateBodies, and two more statuses
ApiUpdateBodies ==
    UpdateBodies \cup {UpdateBody(2, <<>>, <<>>, <<>>), UpdateBody(-2, <<>>, <<5>>, <<>>)}

ApiResp(op, uid, id, arg, cols, r) ==
    [op |-> op, uid |-> uid, id |-> id, arg |-> arg, cols |-> cols,
     err |-> r.err, docs |-> r.docs, out |-> r.out, reads |-> r.reads,
     writes |-> r.writes]

\* what a writing handler answers: LogOutput::from(doc) after upsert_fields
Answer(r) ==
    [err |-> r.err, docs |-> IF r.err = NoErr THEN <<r.doc>> ELSE <<>>,
     out |-> IF r.err = NoErr THEN <<LogOutput_from(r.doc)>> ELSE <<>>,
     reads |-> r.reads, writes |-> r.writes]

\* POST /v1/log
ApiCreate ==
    /\ counter <= MaxIds
    /\ \E body \in ApiCreateBodies :
         LET input == [f \in (DOMAIN body) \cup {"uid"} |->
                          IF f = "uid" THEN UidA ELSE body[f]]
             r == create(rows, now, counter, input)
         IN /\ writes + Written(r) <= MaxWrites
            /\ rows' = r.store
            /\ counter' = counter + r.xids
            /\ writes' = writes + Written(r)
            /\ resp' = ApiResp("create", UidA,
                               IF r.xids = 1 THEN xid_new(now, counter) ELSE ZeroId,
                               body, r.cols, Answer(r))
    /\ UNCHANGED <<calls, now, ticks>>

\* PATCH /v1/log
ApiUpdate ==
    /\ \E k \in WriteKeys, body \in ApiUpdateBodies :
         LET input == [f \in (DOMAIN body) \cup {"uid", "id"} |->
                          IF f = "uid" THEN k[1] ELSE IF f = "id" THEN k[2] ELSE body[f]]
             r == update(rows, input)
         IN /\ writes + Written(r) <= MaxWrites
            /\ rows' = r.store
            /\ writes' = writes + Written(r)
            /\ resp' = ApiResp("update", k[1], k[2], body, r.cols, Answer(r))
    /\ UNCHANGED <<calls, now, counter, ticks>>

\* GET /v1/log
ApiGet ==
    /\ \E id \in TargetIds, f \in QueryFields :
         resp' = ApiResp("get", UidA, id, [fields |-> f], <<>>,
                         get(rows, [uid |-> UidA, id |-> id, fields |-> f]))
    /\ UNCHANGED <<calls, rows, now, counter, writes, ticks>>

\* POST /v1/log/list_recently
ApiListRecently ==
    /\ \E input \in RecentInputs :
         resp' = ApiResp("list_recently", UidA, ZeroId, input, <<>>,
                         api_list_recently(rows, now,
                             [uid |-> UidA, actions |-> input.actions,
                              fields |-> input.fields]))
    /\ UNCHANGED <<calls, rows, now, counter, writes, ticks>>

NextApi ==
    \/ ApiCreate
    \/ ApiUpdate
    \/ ApiGet
    \/ ApiListRecently

SpecApi == Init /\ [][NextApi]_vars

OptionalFields == {"gid", "ip", "payload", "tokens", "error"}

\* the projection the read of the last call resolved from what it was asked
Resolved(r) ==
    IF r.op = "get" THEN select_fields(get_fields(r.arg.fields), FALSE).fields
    ELSE select_fields(IF r.arg.fields = <<>> THEN <<>> ELSE r.arg.fields[1], TRUE).fields

\* C11: in every entry that get and list_recently return, an optional field
\* (gid, ip, payload, tokens, error) is present only if the resolved
\* projection holds it, and absent otherwise; a selected optional field other
\* than error is present even when zero; error is absent when the stored
\* value is empty; action and status are always there.
C11_OptionalFieldsFollowProjection ==
    (resp.op \in {"get", "list_recently"} /\ resp.err = NoErr)
        => /\ Len(resp.out) = Len(resp.docs)
           /\ \A i \in 1..Len(resp.out) :
                 LET o == resp.out[i]
                     k == <<o.uid, o.id>>
                 IN /\ k \in DOMAIN rows
                    /\ \A f \in OptionalFields :
                          /\ o[f] # <<>> => Contains(Resolved(resp), f)
                          /\ ~Contains(Resolved(resp), f) => o[f] = <<>>
                    /\ \A f \in OptionalFields \ {"error"} :
                          Contains(Resolved(resp), f) => Len(o[f]) = 1
                    /\ rows[k].error \in {<<>>, <<"">>} => o.error = <<>>
                    /\ (Contains(Resolved(resp), "error") /\ rows[k].error \notin {<<>>, <<"">>})
                          => o.error = rows[k].error
                    /\ rows[k].action # <<>> => o.action = from_action(rows[k].action[1])
                    /\ <<o.status>> = (IF rows[k].status = <<>> THEN <<0>> ELSE rows[k].status)

\* a get of " tokens, error " on a failed entry returned tokens and error and
\* neither gid, ip nor payload
C11_Witness ==
    /\ resp.op = "get" /\ resp.err = NoErr
    /\ get_fields(resp.arg.fields) = <<"tokens", "error">>
    /\ resp.out[1].status = -1
    /\ resp.out[1].error = <<"some error">>
    /\ resp.out[1].tokens = <<<<0, 0, 0, 5>>>>
    /\ resp.out[1].gid = <<>> /\ resp.out[1].ip = <<>> /\ resp.out[1].payload = <<>>

\* the name is no entry of the table, or is the sentinel
Unresolvable(name) == name = "reserved" \/ ~Contains(ACTIONS_TABLE, name)

\* C12: list_recently given more than 10 action names, or a name the registry
\* does not resolve ("reserved" included), is refused with a 400 (the
\* validator's error for the count, "invalid action" with the name otherwise)
\* and no statement reaches the row store.
C12_ListRecentlyRefused ==
    (/\ resp.op = "list_recently"
     /\ \/ Len(resp.arg.actions) > 10
        \/ \E i \in 1..Len(resp.arg.actions) : Unresolvable(resp.arg.actions[i]))
        => /\ resp.err.code = 400
           /\ resp.err.kind \in {"validation", "invalid action"}
           /\ Len(resp.arg.actions) > 10 => resp.err.kind = "validation"
           /\ resp.err.kind = "invalid action"
                 => \E i \in 1..Len(resp.arg.actions) :
                       /\ Unresolvable(resp.arg.actions[i])
                       /\ resp.err.detail = resp.arg.actions[i]
           /\ resp.reads = 0
           /\ resp.docs = <<>> /\ resp.out = <<>>

\* eleven names, each one known, were refused while the owner had entries
C12_Witness ==
    /\ resp.op = "list_recently"
    /\ Len(resp.arg.actions) = 11
    /\ \A i \in 1..11 : ~Unresolvable(resp.arg.actions[i])
    /\ \E k \in DOMAIN rows : k[1] = resp.uid /\ rows[k].action = <<24>>
    /\ resp.err.code = 400
    /\ resp.reads = 0

\* C13: a create whose action name the registry does not resolve (an unknown
\* name, or "reserved") fails and writes nothing: the table is as it was, for
\* every key, and no id is taken; the error is "invalid action" with the name
\* whenever status and tokens of the input are in range.
C13_CreateInvalidAction ==
    [][(resp'.op = "create" /\ Unresolvable(resp'.arg.action))
        => /\ resp'.err # NoErr
           /\ resp'.err.code = 400
           /\ (resp'.arg.status \in -1..1 /\ resp'.arg.tokens >= 0)
                 => resp'.err = HTTPError(400, "invalid action", resp'.arg.action)
           /\ rows' = rows
           /\ resp'.writes = 0 /\ resp'.reads = 0
           /\ counter' = counter
           /\ resp'.out = <<>>]_vars

\* the sentinel name was refused while the table held an entry
C13_Witness ==
    /\ resp.op = "create"
    /\ resp.arg.action = "reserved"
    /\ resp.err = HTTPError(400, "invalid action", "reserved")
    /\ rows # <<>>
    /\ resp.writes = 0

----------------------------------------------------------------------------
(* api/action.rs: the registry on every i8 and on every name of the table and
   a few that are not, under SpecRegistry *)

\* the values of an i8
I8 == -128..127

\* the names looked up: the entries of the table, and names it does not hold
LookupNames == Range(ACTIONS_TABLE) \cup {"", "no.such.action", "Group.Create", "reserved "}

RegistryResp(op, arg, out) ==
    [op |-> op, uid |-> ZeroId, id |-> ZeroId, arg |-> arg, cols |-> <<>>,
     err |-> NoErr, docs |-> <<>>, out |-> out, reads |-> 0, writes |-> 0]

InitRegistry ==
    /\ rows = <<>>
    /\ calls = <<>>
    /\ now = StartTime
    /\ counter = 1
    /\ writes = 0
    /\ ticks = 0
    /\ \/ \E c \in I8 : resp = RegistryResp("code", c, <<>>)
       \/ \E n \in LookupNames : resp = RegistryResp("name", n, <<>>)

\* action::from_action(code)
ApplyFromAction ==
    /\ resp.op = "code"
    /\ resp' = RegistryResp("from_action", resp.arg, from_action(resp.arg))
    /\ UNCHANGED <<calls, rows, now, counter, writes, ticks>>

\* action::to_action(name)
ApplyToAction ==
    /\ resp.op = "name"
    /\ resp' = RegistryResp("to_action", resp.arg, to_action(resp.arg))
    /\ UNCHANGED <<calls, rows, now, counter, writes, ticks>>

NextRegistry ==
    \/ ApplyFromAction
    \/ ApplyToAction

SpecRegistry == InitRegistry /\ [][NextRegistry]_vars

\* C14: from_action answers every code: "reserved" outside 0..71, negative
\* codes included, and the entry at index c inside; to_action answers None
\* for "reserved" and for a name the table does not hold, and a code it does
\* answer is the first index of the name, never that of a reserved slot.
C14_RegistryTotal ==
    /\ Len(ACTIONS_TABLE) = 72
    /\ resp.op = "from_action"
          => /\ resp.arg \notin 0..71 => resp.out = "reserved"
             /\ resp.arg \in 0..71 => resp.out = ACTIONS_TABLE[resp.arg + 1]
    /\ resp.op = "to_action"
          => /\ resp.arg = "reserved" => resp.out = <<>>
             /\ (\A i \in 1..72 : ACTIONS_TABLE[i] # resp.arg) => resp.out = <<>>
             /\ resp.out # <<>>
                   => /\ resp.out[1] \in 0..71
                      /\ ACTIONS_TABLE[resp.out[1] + 1] = resp.arg
                      /\ ACTIONS_TABLE[resp.out[1] + 1] # "reserved"
                      /\ \A i \in 1..resp.out[1] : ACTIONS_TABLE[i] # resp.arg

\* a negative code was looked up and answered "reserved"
C14_Witness ==
    /\ resp.op = "from_action"
    /\ resp.arg = -1
    /\ resp.out = "reserved"

----------------------------------------------------------------------------
(* Concurrent requests: each update is two statements, the guard read and the
   UPDATE, and the statements of several requests interleave, under SpecRace *)

Callers == 1..MaxCallers

RaceBodies ==
    {UpdateBody(1, <<>>, <<>>, <<>>),
     UpdateBody(-1, <<<<1>>>>, <<5>>, <<"some error">>),
     UpdateBody(0, <<>>, <<>>, <<>>)}

\* a guard that lets every request through to its UPDATE
GuardAlwaysPasses(r) == TRUE

\* the request got past its checks and the guard read: its UPDATE is next
Proceeds(r) == r.writes = 1

\* a caller sends PATCH /v1/log; update runs up to the await of the guard read
\* in Log::upsert_fields, and the outcome of the read decides what follows
RaceBegin ==
    /\ \E c \in Callers \ DOMAIN calls, k \in WriteKeys, body \in RaceBodies :
         LET input == [f \in (DOMAIN body) \cup {"uid", "id"} |->
                          IF f = "uid" THEN k[1] ELSE IF f = "id" THEN k[2] ELSE body[f]]
             r == update(rows, input)
             call == [pc |-> IF Proceeds(r) THEN "guarded" ELSE "done",
                      key |-> k, body |-> body, cols |-> r.cols, doc |-> r.doc,
                      err |-> IF Proceeds(r) THEN NoErr ELSE r.err, seq |-> 0]
         IN calls' = [x \in (DOMAIN calls) \cup {c} |-> IF x = c THEN call ELSE calls[x]]
    /\ UNCHANGED <<rows, now, counter, writes, ticks, resp>>

\* the UPDATE of a request that passed its guard reaches the table as it is now
RaceWrite ==
    /\ \E c \in DOMAIN calls :
         /\ calls[c].pc = "guarded"
         /\ rows' = SetColumns(rows, calls[c].key, calls[c].cols)
         /\ writes' = writes + 1
         /\ calls' = [calls EXCEPT ![c].pc = "done", ![c].seq = writes + 1]
    /\ UNCHANGED <<now, counter, ticks, resp>>

NextRace ==
    \/ CreateWith({UidA}, PageCreateBodies, 1)
    \/ RaceBegin
    \/ RaceWrite

SpecRace == Init /\ [][NextRace]_vars

\* C15: the freeze guard is not atomic. A row whose status is 1 or -1 is
\* modified only by the UPDATE of a request whose guard read came before the
\* write that made the row terminal (it read the row pending or missing),
\* while another request on the same key has already written; with two
\* requests on one pending entry that interleaving is reached.
C15_GuardNotAtomic ==
    [][\A k \in DOMAIN rows :
          (Terminal(rows, k) /\ rows'[k] # rows[k])
              => \E c \in DOMAIN calls :
                    /\ calls[c].pc = "guarded" /\ calls'[c].pc = "done"
                    /\ calls[c].key = k
                    /\ calls[c].doc.status = 0
                    /\ \E d \in (DOMAIN calls) \ {c} :
                          /\ calls[d].key = k
                          /\ calls[d].pc = "done" /\ calls[d].err = NoErr
                          /\ calls[d].seq >= 1]_vars

\* two requests on one created entry both succeeded: the first set status -1
\* and an error, the second then set status 1 on the terminal row, whose
\* error column still holds what the first wrote
C15_Witness ==
    /\ DOMAIN calls = {1, 2}
    /\ calls[1].pc = "done" /\ calls[2].pc = "done"
    /\ calls[1].err = NoErr /\ calls[2].err = NoErr
    /\ calls[1].key = calls[2].key
    /\ calls[1].key \in DOMAIN rows
    /\ rows[calls[1].key].action = <<24>>
    /\ calls[1].body.status = -1 /\ calls[2].body.status = 1
    /\ 1 <= calls[1].seq /\ calls[1].seq < calls[2].seq
    /\ rows[calls[1].key].status = <<1>>
    /\ rows[calls[1].key].error = <<"some error">>

----------------------------------------------------------------------------
(* A row store that may not answer: every statement is answered ("ok") or
   runs into its deadline ("timeout"), under SpecFault *)

Answers == {"ok", "timeout"}

\* db.execute(..).await? when the statement is not answered in time
Timeout == StorageError("timeout")

\* Log::get_one, its SELECT answered with a
get_one_with(store, self, sf, a) ==
    LET p == select_fields(sf, FALSE)
        d == [self EXCEPT !._fields = p.fields]
    IN IF p.err # NoErr \/ a = "ok" THEN get_one(store, self, sf)
       ELSE [err |-> Timeout, doc |-> d, reads |-> 1]

\* Log::upsert_fields, its guard SELECT answered with io.read and its UPDATE
\* with io.write
upsert_fields_with(store, self, cols, io) ==
    LET g == get_one_with(store, self, <<"status">>, io.read)
        k == <<self.uid, self.id>>
        bad == (DOMAIN cols) \ valid_fields
        out(e, w, s) == [err |-> e, doc |-> g.doc, reads |-> g.reads,
                         writes |-> w, store |-> s]
    IN IF g.err = NoErr /\ g.doc.status # 0
       THEN out(HTTPError(400, "log is frozen", ""), 0, store)
       ELSE IF bad # {}
       THEN out(HTTPError(400, "Invalid field", CHOOSE c \in bad : TRUE), 0, store)
       ELSE IF DOMAIN cols = {}
       THEN out(StorageError("syntax"), 1, store)
       ELSE IF io.write # "ok"
       THEN out(Timeout, 1, store)
       ELSE out(NoErr, 1, SetColumns(store, k, cols))

FaultColumnsMaps ==
    {[status |-> 1], [status |-> -1, error |-> "some error"], [error |-> "late"]}

\* Log::with_pk(uid, id).upsert_fields(db, cols) on the store that may fail
CallUpsertFieldsWith ==
    /\ \E k \in WriteKeys, cols \in FaultColumnsMaps, rd \in Answers, wr \in Answers :
         LET io == [read |-> rd, write |-> wr]
             r == upsert_fields_with(rows, with_pk(k[1], k[2]), cols, io)
         IN /\ writes + Written(r) <= MaxWrites
            /\ rows' = r.store
            /\ writes' = writes + Written(r)
            /\ resp' = Resp("upsert_fields", k[1], k[2], io, cols, r, <<r.doc>>)
    /\ UNCHANGED <<calls, now, counter, ticks>>

\* Log::with_pk(uid, id).get_one(db, select_fields) on the store that may fail
CallGetOneWith ==
    /\ \E k \in WriteKeys, sf \in {<<>>, <<"error">>}, rd \in Answers :
         LET r == get_one_with(rows, with_pk(k[1], k[2]), sf, rd)
         IN resp' = Resp("get_one", k[1], k[2], [read |-> rd, write |-> "ok"], <<>>,
                         [err |-> r.err, reads |-> r.reads, writes |-> 0],
                         IF r.err = NoErr THEN <<r.doc>> ELSE <<>>)
    /\ UNCHANGED <<calls, rows, now, counter, writes, ticks>>

NextFault ==
    \/ CreateWith({UidA}, PageCreateBodies, 1)
    \/ CallUpsertFieldsWith
    \/ CallGetOneWith

SpecFault == Init /\ [][NextFault]_vars

\* C16: a call whose statement is not answered fails with the storage error;
\* an upsert_fields whose guard read is not answered fails, sends no UPDATE
\* and leaves the table as it was, so that a frozen row stays as it is.
C16_StorageErrorsPropagate ==
    [][(resp'.op \in {"upsert_fields", "get_one"} /\ resp'.arg.read = "timeout")
        => /\ resp'.err = Timeout
           /\ resp'.writes = 0
           /\ rows' = rows]_vars

----------------------------------------------------------------------------
(* Log::upsert_fields and the update handler again: the order of the checks,
   what update answers and what it writes *)

\* C17: upsert_fields given a column outside status, gid, action, ip,
\* payload, tokens and error fails with "Invalid field" and writes nothing,
\* whether the entry is absent, pending or frozen: the check of the column
\* names decides the outcome before the freeze guard does.
C17_InvalidColumnFirst ==
    [][(/\ resp'.op = "upsert_fields"
        /\ \E c \in DOMAIN resp'.cols :
              c \notin {"status", "gid", "action", "ip", "payload", "tokens", "error"})
        => /\ resp'.err.code = 400
           /\ resp'.err.kind = "Invalid field"
           /\ resp'.writes = 0
           /\ rows' = rows]_vars

\* C18: update takes the status 1 and -1 only: with any other status, 0
\* included, it answers 400 before a statement is sent, and the table stays
\* as it was; so after any run of create and update requests every stored
\* status reads as -1, 0 or 1, and a successful update leaves its entry frozen.
C18_UpdateStatusTerminalOnly ==
    [][/\ (resp'.op = "update" /\ resp'.arg.status \notin {1, -1})
            => /\ resp'.err # NoErr
               /\ resp'.err.code = 400
               /\ resp'.reads = 0 /\ resp'.writes = 0
               /\ rows' = rows
       /\ (resp'.op = "update" /\ resp'.err = NoErr)
            => /\ resp'.arg.status \in {1, -1}
               /\ rows'[Key(resp')].status = <<resp'.arg.status>>
               /\ Terminal(rows', Key(resp'))
               /\ upsert_fields(rows', with_pk(resp'.uid, resp'.id), [error |-> "late"]).err
                     = HTTPError(400, "log is frozen", "")
       /\ \A k \in DOMAIN rows' :
             /\ rows'[k].status \in {<<>>, <<-1>>, <<1>>}
             /\ Observed(rows', k).doc.status \in {-1, 0, 1}]_vars

\* an update with status 0 on a pending entry was refused without a read
C18_Witness ==
    /\ resp.op = "update"
    /\ resp.arg.status = 0
    /\ Pending(rows, Key(resp))
    /\ resp.err = HTTPError(400, "invalid status", "0")
    /\ resp.reads = 0

\* C19: the entry a successful update answers with carries the status the
\* request has just written, the status a get_one on the key then reads
\* (stated for the entries a create has written).
C19_UpdateReturnsWrittenStatus ==
    (/\ resp.op = "update" /\ resp.err = NoErr
     /\ Key(resp) \in DOMAIN rows /\ rows[Key(resp)].action # <<>>)
        => /\ Len(resp.out) = 1
           /\ resp.out[1].status = resp.arg.status
           /\ resp.out[1].status = Observed(rows, Key(resp)).doc.status

\* C20: every row of the table was written by a create: an update on a key
\* that has no row leaves the key without a row (a get_one on it still
\* answers not found), and every row holds an action code.
C20_RowsComeFromCreate ==
    [][/\ (resp'.op = "update" /\ Key(resp') \notin DOMAIN rows)
            => /\ Key(resp') \notin DOMAIN rows'
               /\ Observed(rows', Key(resp')).err = NotFound
       /\ \A k \in DOMAIN rows' :
             /\ rows'[k].action # <<>>
             /\ k \notin DOMAIN rows => resp'.op = "create"]_vars

----------------------------------------------------------------------------
(* The list_recently handler without action names, and the registry both ways *)

\* C21: the action names of list_recently are optional: a request with an
\* empty list of actions is accepted and answers with the entries of the
\* owner inside the window, whatever their action, newest first.
C21_RecentWithoutActions ==
    (resp.op = "list_recently" /\ resp.arg.actions = <<>>)
        => LET in == {x \in OwnerIds(rows, resp.uid) : InWindow(x, now)}
           IN /\ resp.err = NoErr
              /\ Descending(resp.docs)
              /\ {resp.out[i].id : i \in 1..Len(resp.out)} = Newest(in, 1000)

\* C22: the registry round-trips: for a code c of 0..71 whose name is not
\* "reserved", to_action(from_action(c)) is c, no such name standing twice in
\* the table; for a name n that to_action answers with c, c is in 0..71 and
\* from_action(c) is n, the index never leaving the range of an i8.
C22_RegistryRoundTrip ==
    /\ \A i, j \in 1..Len(ACTIONS_TABLE) :
          (ACTIONS_TABLE[i] = ACTIONS_TABLE[j] /\ ACTIONS_TABLE[i] # "reserved") => i = j
    /\ Len(ACTIONS_TABLE) - 1 \in I8
    /\ (resp.op = "from_action" /\ resp.arg \in 0..71 /\ resp.out # "reserved")
          => to_action(resp.out) = <<resp.arg>>
    /\ (resp.op = "to_action" /\ resp.out # <<>>)
          => /\ resp.out[1] \in 0..71
             /\ from_action(resp.out[1]) = resp.arg

\* the last name of the table that is not reserved was answered with its code
C22_Witness ==
    /\ resp.op = "to_action"
    /\ resp.arg = "publication.assist"
    /\ resp.out = <<61>>
    /\ from_action(61) = "publication.assist"
====
